---- MODULE Spec2Model ----
(***************************************************************************)
(* Model of led-matrix-life (src/src/main.rs): Conway's Game of Life on an *)
(* 8x16 torus, stepped in place and rendered to an LED matrix framebuffer  *)
(* by a cooperative main loop.                                             *)
(*                                                                         *)
(* Spec    : the main loop of main(), one action per statement.            *)
(* SpecFn  : the pure functions (count_neighbors_*, step_state,            *)
(*           show_state) applied to grids drawn from a bounded family.     *)
(***************************************************************************)
EXTENDS Integers, Sequences, FiniteSets

VARIABLES
    state,          \* main.rs:177  the grid, state[row][col], u8 cells
    image,          \* main.rs:96   array.array, the framebuffer
    frame_timeout,  \* main.rs:193
    red_led,        \* main.rs:72   heartbeat output level
    pc,             \* position in main(), or the last function applied (SpecFn)
    scan_res,       \* result of the last array.scan call: "none", "ok", "err"
    iters,          \* history: completed iterations of the loop
    gens,           \* history: completed step_state calls
    scans,          \* history: array.scan calls
    errs,           \* history: failed array.scan calls (saturating at MaxErrs)
    ops,            \* history: operations performed in the current iteration
    pre,            \* history: the grid as it was before the last call
    counts,         \* SpecFn: counts[row][col], the value returned at (row, col)
    first,          \* history: the grid as it was before the first call
    cursor          \* SpecEval: cells visited by the evaluation pass in progress

vars == <<state, image, frame_timeout, red_led, pc, scan_res,
          iters, gens, scans, errs, ops, pre, counts, first, cursor>>

(***************************************************************************)
(* Program constants                                                       *)
(***************************************************************************)
Rows == 8
Cols == 16
frame_duration == 8
initial_timeout == 100
on_intensity == 15

(***************************************************************************)
(* Bounds of the model                                                     *)
(***************************************************************************)
MaxIters == 164     \* loop iterations explored by Spec
MaxErrs == 2        \* failed scans told apart by the history counter
WinCells == 3       \* cells of the window that an input grid may flip
MaxGens == 8        \* steps told apart by the history counter of SpecLive
MaxCalls == 4       \* calls of step_state in a row in SpecGlider

RowIdx == 0..(Rows - 1)
ColIdx == 0..(Cols - 1)

\* [[0; 16]; 8]
zero_grid == [r \in RowIdx |-> [c \in ColIdx |-> 0]]

\* the hard-coded initial pattern, main.rs:177-186
initial_rows ==
    << <<0, 0, 0, 0, 0, 0, 0, 0, 0, 0, 0, 0, 0, 0, 0, 0>>,
       <<0, 0, 0, 0, 0, 1, 0, 0, 0, 0, 0, 0, 0, 0, 0, 0>>,
       <<0, 0, 0, 0, 1, 0, 0, 0, 0, 0, 0, 0, 0, 0, 0, 0>>,
       <<0, 1, 1, 0, 0, 1, 0, 1, 1, 1, 0, 0, 0, 0, 0, 0>>,
       <<0, 0, 0, 1, 1, 1, 1, 0, 0, 1, 0, 0, 0, 0, 0, 0>>,
       <<0, 1, 1, 0, 0, 1, 0, 1, 1, 1, 0, 0, 0, 0, 0, 0>>,
       <<0, 0, 0, 0, 1, 0, 0, 0, 0, 0, 0, 0, 0, 0, 0, 0>>,
       <<0, 0, 0, 1, 0, 0, 0, 0, 0, 0, 0, 0, 0, 0, 0, 0>> >>

initial_state == [r \in RowIdx |-> [c \in ColIdx |-> initial_rows[r + 1][c + 1]]]

(***************************************************************************)
(* u8 bit operations used by the source                                    *)
(***************************************************************************)
\* v & 1
And1(v) == v % 2

\* v | 0b10
Or2(v) == IF (v \div 2) % 2 = 1 THEN v ELSE v + 2

\* v >> 1
Shr1(v) == v \div 2

Min(a, b) == IF a < b THEN a ELSE b

\* mutant: the range starts at n itself
saturating_sub1_none(n) == n

\* usize::saturating_sub(1)
saturating_sub1(n) == IF n = 0 THEN 0 ELSE n - 1

(***************************************************************************)
(* count_neighbors_torus, main.rs:122-136.  The loops run roff over 7..=9  *)
(* and coff over 15..=17 and skip (8, 16); torus_cell is the body for one  *)
(* pair and the sum lists the eight remaining pairs in loop order.         *)
(***************************************************************************)
\* mutant: the cell value is added without masking bit 0
torus_cell_nomask(s, row, col, roff, coff) == s[(row + roff) % 8][(col + coff) % 16]

torus_cell(s, row, col, roff, coff) == And1(s[(row + roff) % 8][(col + coff) % 16])

\* mutant: the row above row 0 is not counted
count_neighbors_torus_edge(s, row, col) ==
      (IF row = 0 THEN 0
       ELSE torus_cell(s, row, col, 7, 15) + torus_cell(s, row, col, 7, 16)
          + torus_cell(s, row, col, 7, 17))
    + torus_cell(s, row, col, 8, 15)
    + torus_cell(s, row, col, 8, 17) + torus_cell(s, row, col, 9, 15)
    + torus_cell(s, row, col, 9, 16) + torus_cell(s, row, col, 9, 17)

\* mutant: the column offsets run over 16..=18
count_neighbors_torus_right(s, row, col) ==
      torus_cell(s, row, col, 7, 16) + torus_cell(s, row, col, 7, 17)
    + torus_cell(s, row, col, 7, 18) + torus_cell(s, row, col, 8, 17)
    + torus_cell(s, row, col, 8, 18) + torus_cell(s, row, col, 9, 16)
    + torus_cell(s, row, col, 9, 17) + torus_cell(s, row, col, 9, 18)

count_neighbors_torus(s, row, col) ==
      torus_cell(s, row, col, 7, 15) + torus_cell(s, row, col, 7, 16)
    + torus_cell(s, row, col, 7, 17) + torus_cell(s, row, col, 8, 15)
    + torus_cell(s, row, col, 8, 17) + torus_cell(s, row, col, 9, 15)
    + torus_cell(s, row, col, 9, 16) + torus_cell(s, row, col, 9, 17)

(***************************************************************************)
(* count_neighbors_bounded, main.rs:109-120.  Both ranges start at         *)
(* n.saturating_sub(1) and end at min(max, n + 1), so each holds at most   *)
(* three indices: lo, lo + 1 and lo + 2, as far as they do not exceed hi.  *)
(***************************************************************************)
\* mutant: the cell value is added without masking bit 0
bounded_cell_nomask(s, row, col, r, c) ==
    IF r = row /\ c = col THEN 0 ELSE s[r][c]

\* main.rs:113-116, the body of the inner loop
bounded_cell(s, row, col, r, c) ==
    IF r = row /\ c = col THEN 0 ELSE And1(s[r][c])

\* main.rs:112, the inner loop for row r
bounded_row(s, row, col, r, lo, hi) ==
      (IF lo <= hi THEN bounded_cell(s, row, col, r, lo) ELSE 0)
    + (IF lo + 1 <= hi THEN bounded_cell(s, row, col, r, lo + 1) ELSE 0)
    + (IF lo + 2 <= hi THEN bounded_cell(s, row, col, r, lo + 2) ELSE 0)

\* main.rs:111, the outer loop
bounded_rows(s, row, col, lo, hi) ==
      (IF lo <= hi
       THEN bounded_row(s, row, col, lo, saturating_sub1(col), Min(15, col + 1))
       ELSE 0)
    + (IF lo + 1 <= hi
       THEN bounded_row(s, row, col, lo + 1, saturating_sub1(col), Min(15, col + 1))
       ELSE 0)
    + (IF lo + 2 <= hi
       THEN bounded_row(s, row, col, lo + 2, saturating_sub1(col), Min(15, col + 1))
       ELSE 0)

\* mutant: the cell itself is not skipped
count_neighbors_bounded_self(s, row, col) ==
    bounded_rows(s, row, col, saturating_sub1(row), Min(7, row + 1)) + And1(s[row][col])

count_neighbors_bounded(s, row, col) ==
    bounded_rows(s, row, col, saturating_sub1(row), Min(7, row + 1))

(***************************************************************************)
(* step_state, main.rs:138-163.  The evaluation pass visits the cells in   *)
(* row-major order and reads the grid as the earlier cells left it.        *)
(***************************************************************************)
\* s has the shape [[u8; 16]; 8].  Testing it before the next cell is visited
\* also makes TLC evaluate the grid cell by cell, as the loop does, instead of
\* building one nested unevaluated expression for the whole pass.
is_grid(s) == DOMAIN s = RowIdx

\* mutant: a live cell survives with exactly 2 live neighbours only
eval_cell_survive2(s, row, col) ==
    LET neighbors == count_neighbors_torus(s, row, col)
    IN  IF And1(s[row][col]) = 0 /\ neighbors = 3
        THEN [s EXCEPT ![row][col] = Or2(@)]
        ELSE IF And1(s[row][col]) = 1 /\ neighbors = 2
        THEN [s EXCEPT ![row][col] = Or2(@)]
        ELSE s

\* mutant: the result is written to bit 0 at once
eval_cell_inplace(s, row, col) ==
    LET neighbors == count_neighbors_torus(s, row, col)
    IN  IF And1(s[row][col]) = 0 /\ neighbors = 3
        THEN [s EXCEPT ![row][col] = 1]
        ELSE IF And1(s[row][col]) = 1 /\ (neighbors = 2 \/ neighbors = 3)
        THEN [s EXCEPT ![row][col] = 1]
        ELSE [s EXCEPT ![row][col] = 0]

\* main.rs:143-153, the body of the inner loop
eval_cell(s, row, col) ==
    LET neighbors == count_neighbors_torus(s, row, col)
    IN  IF And1(s[row][col]) = 0 /\ neighbors = 3
        THEN [s EXCEPT ![row][col] = Or2(@)]
        ELSE IF And1(s[row][col]) = 1 /\ (neighbors = 2 \/ neighbors = 3)
        THEN [s EXCEPT ![row][col] = Or2(@)]
        ELSE s

\* the inner loop, main.rs:142-154, from column col on; t is the grid that
\* the body leaves for the next column
RECURSIVE eval_row(_, _, _)
eval_row(s, row, col) ==
    IF col = Cols \/ ~is_grid(s) THEN s
    ELSE CHOOSE out \in {eval_row(t, row, col + 1) : t \in {eval_cell(s, row, col)}} : TRUE

\* the outer loop, main.rs:141-155, from row row on; t is the grid that
\* the inner loop leaves for the next row
RECURSIVE eval_pass(_, _)
eval_pass(s, row) ==
    IF row = Rows \/ ~is_grid(s) THEN s
    ELSE CHOOSE out \in {eval_pass(t, row + 1) : t \in {eval_row(s, row, 0)}} : TRUE

\* mutant: the commit pass is missing
commit_pass_none(s) == s

\* main.rs:158-162
commit_pass(s) == [r \in RowIdx |-> [c \in ColIdx |-> Shr1(s[r][c])]]

\* the two passes in turn; t is the grid between them
step_state(s) == CHOOSE out \in {commit_pass(t) : t \in {eval_pass(s, 0)}} : TRUE

(***************************************************************************)
(* show_state, main.rs:165-171.  show_state(s) holds the value assigned to *)
(* each entry, main.rs:168.                                                *)
(***************************************************************************)
\* mutant: the test is inverted
show_state_inverted(s) ==
    [r \in RowIdx |-> [c \in ColIdx |-> IF s[r][c] = 1 THEN 0 ELSE on_intensity]]

show_state(s) ==
    [r \in RowIdx |-> [c \in ColIdx |-> IF s[r][c] = 1 THEN on_intensity ELSE 0]]

\* mutant: the outer loop stops one row short
show_state_into_short(s, img) ==
    LET shown == show_state(s)
    IN  [r \in RowIdx |-> [c \in ColIdx |->
            IF r \in 0..6 /\ c \in 0..15 THEN shown[r][c] ELSE img[r][c]]]

\* the call show_state(&state, &mut image) on a framebuffer holding img: the
\* loops of main.rs:166-167 assign the entries of rows 0..8 and columns 0..16,
\* any other entry would keep what it held
show_state_into(s, img) ==
    LET shown == show_state(s)
    IN  [r \in RowIdx |-> [c \in ColIdx |->
            IF r \in 0..7 /\ c \in 0..15 THEN shown[r][c] ELSE img[r][c]]]

(***************************************************************************)
(* main(), main.rs:174-205.                                                *)
(***************************************************************************)
Init ==
    /\ state = initial_state
    /\ image = zero_grid
    /\ frame_timeout = initial_timeout
    /\ red_led = FALSE
    /\ pc = "render0"
    /\ scan_res = "none"
    /\ iters = 0
    /\ gens = 0
    /\ scans = 0
    /\ errs = 0
    /\ ops = <<>>
    /\ pre = initial_state
    /\ counts = zero_grid
    /\ first = state
    /\ cursor = 0

\* main.rs:190  show_state(&state, &mut array.array) before the loop
InitialRender ==
    /\ pc = "render0"
    /\ image' = show_state_into(state, image)
    /\ pc' = "gate"
    /\ UNCHANGED <<state, frame_timeout, red_led, scan_res,
                   iters, gens, scans, errs, ops, pre, counts, first, cursor>>

\* mutant: the branch steps without rendering first
Gate_norender ==
    /\ pc = "gate"
    /\ iters < MaxIters
    /\ pc' = IF frame_timeout = 0 THEN "step" ELSE "dec"
    /\ ops' = IF frame_timeout = 0 THEN <<"fire">> ELSE <<"skip">>
    /\ UNCHANGED <<state, image, frame_timeout, red_led, scan_res,
                   iters, gens, scans, errs, pre, counts, first, cursor>>

\* main.rs:196  if frame_timeout == 0
Gate ==
    /\ pc = "gate"
    /\ iters < MaxIters
    /\ pc' = IF frame_timeout = 0 THEN "show" ELSE "dec"
    /\ ops' = IF frame_timeout = 0 THEN <<"fire">> ELSE <<"skip">>
    /\ UNCHANGED <<state, image, frame_timeout, red_led, scan_res,
                   iters, gens, scans, errs, pre, counts, first, cursor>>

\* mutant: the branch does not render
Show_none ==
    /\ pc = "show"
    /\ image' = image
    /\ ops' = Append(ops, "show")
    /\ pc' = "step"
    /\ UNCHANGED <<state, frame_timeout, red_led, scan_res,
                   iters, gens, scans, errs, pre, counts, first, cursor>>

\* main.rs:197
Show ==
    /\ pc = "show"
    /\ image' = show_state_into(state, image)
    /\ ops' = Append(ops, "show")
    /\ pc' = "step"
    /\ UNCHANGED <<state, frame_timeout, red_led, scan_res,
                   iters, gens, scans, errs, pre, counts, first, cursor>>

\* mutant: the new generation is rendered as soon as it is computed
Step_rerender ==
    /\ pc = "step"
    /\ pre' = state
    /\ state' = step_state(state)
    /\ image' = show_state_into(step_state(state), image)
    /\ gens' = gens + 1
    /\ ops' = Append(ops, "step")
    /\ pc' = "reset"
    /\ UNCHANGED <<frame_timeout, red_led, scan_res,
                   iters, scans, errs, counts, first, cursor>>

\* main.rs:198
Step ==
    /\ pc = "step"
    /\ pre' = state
    /\ state' = step_state(state)
    /\ gens' = gens + 1
    /\ ops' = Append(ops, "step")
    /\ pc' = "reset"
    /\ UNCHANGED <<image, frame_timeout, red_led, scan_res,
                   iters, scans, errs, counts, first, cursor>>

\* mutant: the counter is not reset
Reset_none ==
    /\ pc = "reset"
    /\ frame_timeout' = frame_timeout
    /\ pc' = "dec"
    /\ UNCHANGED <<state, image, red_led, scan_res,
                   iters, gens, scans, errs, ops, pre, counts, first, cursor>>

\* mutant: the counter is reset one short of the frame duration
Reset_short ==
    /\ pc = "reset"
    /\ frame_timeout' = frame_duration - 1
    /\ pc' = "dec"
    /\ UNCHANGED <<state, image, red_led, scan_res,
                   iters, gens, scans, errs, ops, pre, counts, first, cursor>>

\* mutant: the counter is reset to the initial timeout
Reset_initial ==
    /\ pc = "reset"
    /\ frame_timeout' = initial_timeout
    /\ pc' = "dec"
    /\ UNCHANGED <<state, image, red_led, scan_res,
                   iters, gens, scans, errs, ops, pre, counts, first, cursor>>

\* main.rs:199
Reset ==
    /\ pc = "reset"
    /\ frame_timeout' = frame_duration
    /\ pc' = "dec"
    /\ UNCHANGED <<state, image, red_led, scan_res,
                   iters, gens, scans, errs, ops, pre, counts, first, cursor>>

\* mutant: the display is serviced in the gate branch only
Dec_scan_in_branch ==
    /\ pc = "dec"
    /\ frame_timeout' = frame_timeout - 1
    /\ pc' = IF frame_timeout = frame_duration THEN "scan" ELSE "toggle"
    /\ UNCHANGED <<state, image, red_led, scan_res,
                   iters, gens, scans, errs, ops, pre, counts, first, cursor>>

\* main.rs:201  frame_timeout -= 1 (i32)
Dec ==
    /\ pc = "dec"
    /\ frame_timeout' = frame_timeout - 1
    /\ pc' = "scan"
    /\ UNCHANGED <<state, image, red_led, scan_res,
                   iters, gens, scans, errs, ops, pre, counts, first, cursor>>

\* mutant: .unwrap() instead of .unwrap_or(()), a failure panics and halts
Scan_unwrap ==
    /\ pc = "scan"
    /\ \E res \in {"ok", "err"} :
          /\ scan_res' = res
          /\ errs' = IF res = "err" THEN Min(errs + 1, MaxErrs) ELSE errs
          /\ pc' = IF res = "err" THEN "panic" ELSE "toggle"
    /\ scans' = scans + 1
    /\ ops' = Append(ops, "scan")
    /\ UNCHANGED <<state, image, frame_timeout, red_led, iters, gens, pre, counts, first, cursor>>

\* main.rs:202  array.scan(base_scan_freq).unwrap_or(())
Scan ==
    /\ pc = "scan"
    /\ \E res \in {"ok", "err"} :
          /\ scan_res' = res
          /\ errs' = IF res = "err" THEN Min(errs + 1, MaxErrs) ELSE errs
    /\ scans' = scans + 1
    /\ ops' = Append(ops, "scan")
    /\ pc' = "toggle"
    /\ UNCHANGED <<state, image, frame_timeout, red_led, iters, gens, pre, counts, first, cursor>>

\* main.rs:203  red_led.toggle(), then back to the top of the loop
Toggle ==
    /\ pc = "toggle"
    /\ red_led' = ~red_led
    /\ iters' = iters + 1
    /\ ops' = Append(ops, "toggle")
    /\ pc' = "gate"
    /\ UNCHANGED <<state, image, frame_timeout, scan_res,
                   gens, scans, errs, pre, counts, first, cursor>>

(***************************************************************************)
(* One whole iteration of the loop, main.rs:195-204, in which array.scan   *)
(* succeeds, as a function of the core state <<state, image,               *)
(* frame_timeout>>; ok_run(n) is the core state after n such iterations    *)
(* from the state the loop is entered in.                                  *)
(***************************************************************************)
loop_body_ok(core) ==
    IF core[3] = 0
    THEN <<step_state(core[1]), show_state_into(core[1], core[2]), frame_duration - 1>>
    ELSE <<core[1], core[2], core[3] - 1>>

\* n iterations from core, as n \div 2 iterations and then the rest (testing
\* the shape of core makes TLC evaluate it before it goes on)
RECURSIVE loop_ok(_, _)
loop_ok(core, n) ==
    IF n = 0 \/ Len(core) # 3 THEN core
    ELSE IF n = 1 THEN loop_body_ok(core)
    ELSE loop_ok(loop_ok(core, n \div 2), n - (n \div 2))

ok_run(n) ==
    loop_ok(<<initial_state, show_state_into(initial_state, zero_grid), initial_timeout>>, n)

Next ==
    \/ InitialRender
    \/ Gate
    \/ Show
    \/ Step
    \/ Reset
    \/ Dec
    \/ Scan
    \/ Toggle

Spec == Init /\ [][Next]_vars

(***************************************************************************)
(* SpecLive: the main loop with no bound on the iterations.  The actions   *)
(* that count in Spec leave iters, scans and errs alone here and let gens  *)
(* saturate at MaxGens, which keeps the state space finite; the program    *)
(* state they produce is that of Gate, Step, Scan and Toggle.  The loop is *)
(* the only thread of control and none of its statements blocks, hence the *)
(* weak fairness of its next step.                                         *)
(***************************************************************************)
\* main.rs:196  if frame_timeout == 0
GateLive ==
    /\ pc = "gate"
    /\ pc' = IF frame_timeout = 0 THEN "show" ELSE "dec"
    /\ ops' = IF frame_timeout = 0 THEN <<"fire">> ELSE <<"skip">>
    /\ UNCHANGED <<state, image, frame_timeout, red_led, scan_res,
                   iters, gens, scans, errs, pre, counts, first, cursor>>

\* main.rs:198
StepLive ==
    /\ pc = "step"
    /\ pre' = state
    /\ state' = step_state(state)
    /\ gens' = Min(gens + 1, MaxGens)
    /\ ops' = Append(ops, "step")
    /\ pc' = "reset"
    /\ UNCHANGED <<image, frame_timeout, red_led, scan_res,
                   iters, scans, errs, counts, first, cursor>>

\* main.rs:202  array.scan(base_scan_freq).unwrap_or(())
ScanLive ==
    /\ pc = "scan"
    /\ \E res \in {"ok", "err"} : scan_res' = res
    /\ ops' = Append(ops, "scan")
    /\ pc' = "toggle"
    /\ UNCHANGED <<state, image, frame_timeout, red_led,
                   iters, gens, scans, errs, pre, counts, first, cursor>>

\* mutant: the body runs once, the loop is left after the toggle
ToggleLive_exit ==
    /\ pc = "toggle"
    /\ red_led' = ~red_led
    /\ ops' = Append(ops, "toggle")
    /\ pc' = "exit"
    /\ UNCHANGED <<state, image, frame_timeout, scan_res,
                   iters, gens, scans, errs, pre, counts, first, cursor>>

\* main.rs:203  red_led.toggle(), then back to the top of the loop
ToggleLive ==
    /\ pc = "toggle"
    /\ red_led' = ~red_led
    /\ ops' = Append(ops, "toggle")
    /\ pc' = "gate"
    /\ UNCHANGED <<state, image, frame_timeout, scan_res,
                   iters, gens, scans, errs, pre, counts, first, cursor>>

NextLive ==
    \/ InitialRender
    \/ GateLive
    \/ Show
    \/ StepLive
    \/ Reset
    \/ Dec
    \/ ScanLive
    \/ ToggleLive

SpecLive == Init /\ [][NextLive]_vars /\ WF_vars(NextLive)

(***************************************************************************)
(* SpecFn: the pure functions applied to input grids.  An input grid is a  *)
(* seed pattern with any of the first WinCells cells of a window flipped,  *)
(* shifted cyclically to an anchor, with the pending bits either clear or  *)
(* set on a checkerboard.                                                  *)
(***************************************************************************)
Seeds == {"empty", "full", "initial"}
PendModes == {"none", "checker"}
PokeSets == SUBSET (0..(WinCells - 1))

seed_bit(seed, r, c) ==
    CASE seed = "empty" -> 0
      [] seed = "full" -> 1
      [] OTHER -> initial_state[r][c]

\* (r, c) is the cell that the shift by (ar, ac) takes (r0, c0) to; the window
\* is three cells wide and cell i of it is (i \div 3, i % 3) before the shift
input_bit(seed, P, ar, ac, r, c) ==
    LET r0 == (r + Rows - ar) % Rows
        c0 == (c + Cols - ac) % Cols
        b == seed_bit(seed, r0, c0)
    IN  IF c0 < 3 /\ (3 * r0 + c0) \in P THEN 1 - b ELSE b

input_grid(seed, P, ar, ac, pend) ==
    [r \in RowIdx |-> [c \in ColIdx |->
        input_bit(seed, P, ar, ac, r, c)
        + (IF pend = "checker" /\ (r + c) % 2 = 0 THEN 2 ELSE 0)]]

at_rest(s) == \A r \in RowIdx, c \in ColIdx : s[r][c] \in {0, 1}

InitFn ==
    /\ \E seed \in Seeds, P \in PokeSets, ar \in RowIdx, ac \in ColIdx, pend \in PendModes :
          state = input_grid(seed, P, ar, ac, pend)
    /\ image = zero_grid
    /\ frame_timeout = initial_timeout
    /\ red_led = FALSE
    /\ pc = "input"
    /\ scan_res = "none"
    /\ iters = 0
    /\ gens = 0
    /\ scans = 0
    /\ errs = 0
    /\ ops = <<>>
    /\ pre = state
    /\ counts = zero_grid
    /\ first = state
    /\ cursor = 0

\* count_neighbors_torus(&state, row, col) at every coordinate
CallCountTorus ==
    /\ pc = "input"
    /\ counts' = [r \in RowIdx |-> [c \in ColIdx |-> count_neighbors_torus(state, r, c)]]
    /\ pc' = "counted_torus"
    /\ UNCHANGED <<state, image, frame_timeout, red_led, scan_res,
                   iters, gens, scans, errs, ops, pre, first, cursor>>

\* count_neighbors_bounded(&state, row, col) at every coordinate
CallCountBounded ==
    /\ pc = "input"
    /\ counts' = [r \in RowIdx |-> [c \in ColIdx |-> count_neighbors_bounded(state, r, c)]]
    /\ pc' = "counted_bounded"
    /\ UNCHANGED <<state, image, frame_timeout, red_led, scan_res,
                   iters, gens, scans, errs, ops, pre, first, cursor>>

\* step_state(&mut state) on a grid at rest
CallStep ==
    /\ pc = "input"
    /\ at_rest(state)
    /\ pre' = state
    /\ state' = step_state(state)
    /\ pc' = "stepped"
    /\ UNCHANGED <<image, frame_timeout, red_led, scan_res,
                   iters, gens, scans, errs, ops, counts, first, cursor>>

NextFn ==
    \/ CallCountTorus
    \/ CallCountBounded
    \/ CallStep

SpecFn == InitFn /\ [][NextFn]_vars

(***************************************************************************)
(* SpecShow: show_state called twice in a row on a grid at rest, over a    *)
(* framebuffer that holds earlier content.                                 *)
(***************************************************************************)
\* framebuffers left by earlier use: dark, fully lit, and two brightness
\* levels in a checkerboard
PriorImages ==
    { zero_grid,
      [r \in RowIdx |-> [c \in ColIdx |-> on_intensity]],
      [r \in RowIdx |-> [c \in ColIdx |-> IF (r + c) % 2 = 0 THEN 7 ELSE on_intensity]] }

InitShow ==
    /\ \E seed \in Seeds, P \in PokeSets, ar \in RowIdx, ac \in ColIdx :
          state = input_grid(seed, P, ar, ac, "none")
    /\ image \in PriorImages
    /\ frame_timeout = initial_timeout
    /\ red_led = FALSE
    /\ pc = "input"
    /\ scan_res = "none"
    /\ iters = 0
    /\ gens = 0
    /\ scans = 0
    /\ errs = 0
    /\ ops = <<>>
    /\ pre = state
    /\ counts = zero_grid
    /\ first = state
    /\ cursor = 0

\* show_state(&state, &mut array), the first call
CallShow ==
    /\ pc = "input"
    /\ image' = show_state_into(state, image)
    /\ pc' = "shown"
    /\ UNCHANGED <<state, frame_timeout, red_led, scan_res,
                   iters, gens, scans, errs, ops, pre, counts, first, cursor>>

\* show_state(&state, &mut array), the second call on the same grid
CallShowAgain ==
    /\ pc = "shown"
    /\ image' = show_state_into(state, image)
    /\ pc' = "shown_twice"
    /\ UNCHANGED <<state, frame_timeout, red_led, scan_res,
                   iters, gens, scans, errs, ops, pre, counts, first, cursor>>

NextShow ==
    \/ CallShow
    \/ CallShowAgain

SpecShow == InitShow /\ [][NextShow]_vars

(***************************************************************************)
(* SpecGlider: step_state called MaxCalls times in a row on a grid that    *)
(* holds one glider and nothing else.                                      *)
(***************************************************************************)
\* the five cells of a glider in a 3 x 3 box
glider_box == << <<0, 1, 0>>, <<0, 0, 1>>, <<1, 1, 1>> >>

\* the glider with the corner of its box at (ar, ac), the box mirrored
\* top-to-bottom when fr and left-to-right when fc
glider_grid(ar, ac, fr, fc) ==
    [r \in RowIdx |-> [c \in ColIdx |->
        LET i == IF fr THEN (ar - r) % Rows ELSE (r - ar) % Rows
            j == IF fc THEN (ac - c) % Cols ELSE (c - ac) % Cols
        IN  IF i \in 0..2 /\ j \in 0..2 THEN glider_box[i + 1][j + 1] ELSE 0]]

InitGlider ==
    /\ \E ar \in RowIdx, ac \in ColIdx, fr \in BOOLEAN, fc \in BOOLEAN :
          state = glider_grid(ar, ac, fr, fc)
    /\ image = zero_grid
    /\ frame_timeout = initial_timeout
    /\ red_led = FALSE
    /\ pc = "input"
    /\ scan_res = "none"
    /\ iters = 0
    /\ gens = 0
    /\ scans = 0
    /\ errs = 0
    /\ ops = <<>>
    /\ pre = state
    /\ counts = zero_grid
    /\ first = state
    /\ cursor = 0

\* step_state(&mut state), called again on the grid the last call left
RunStep ==
    /\ gens < MaxCalls
    /\ pre' = state
    /\ state' = step_state(state)
    /\ gens' = gens + 1
    /\ pc' = "stepped"
    /\ UNCHANGED <<image, frame_timeout, red_led, scan_res,
                   iters, scans, errs, ops, counts, first, cursor>>

NextGlider == RunStep

SpecGlider == InitGlider /\ [][NextGlider]_vars

(***************************************************************************)
(* SpecShift: step_state called once on grids at rest whose cells lie      *)
(* across the edges and the corners of the grid.                           *)
(***************************************************************************)
\* where the window of flipped cells is put
ShiftAnchors == {<<0, 0>>, <<7, 15>>, <<3, 8>>}

InitShift ==
    /\ \E seed \in Seeds, P \in PokeSets, a \in ShiftAnchors :
          state = input_grid(seed, P, a[1], a[2], "none")
    /\ image = zero_grid
    /\ frame_timeout = initial_timeout
    /\ red_led = FALSE
    /\ pc = "input"
    /\ scan_res = "none"
    /\ iters = 0
    /\ gens = 0
    /\ scans = 0
    /\ errs = 0
    /\ ops = <<>>
    /\ pre = state
    /\ counts = zero_grid
    /\ first = state
    /\ cursor = 0

NextShift == CallStep

SpecShift == InitShift /\ [][NextShift]_vars

(***************************************************************************)
(* SpecEval: the evaluation pass of step_state, main.rs:141-155, one       *)
(* coordinate at a time in row-major order.  cursor counts the coordinates *)
(* visited, counts keeps the neighbour count computed at each of them.     *)
(***************************************************************************)
EvalCell ==
    /\ pc \in {"input", "evaluating"}
    /\ cursor < Rows * Cols
    /\ LET row == cursor \div Cols
           col == cursor % Cols
       IN  /\ counts' = [counts EXCEPT ![row][col] = count_neighbors_torus(state, row, col)]
           /\ state' = eval_cell(state, row, col)
    /\ cursor' = cursor + 1
    /\ pc' = "evaluating"
    /\ UNCHANGED <<image, frame_timeout, red_led, scan_res,
                   iters, gens, scans, errs, ops, pre, first>>

NextEval == EvalCell

SpecEval == InitShift /\ [][NextEval]_vars

(***************************************************************************)
(* Reference notions used by the properties                                *)
(***************************************************************************)
Offsets == ({-1, 0, 1} \X {-1, 0, 1}) \ {<<0, 0>>}

\* live cells among the eight toroidal neighbours of (r, c)
LiveTorus(g, r, c) ==
    Cardinality({d \in Offsets : And1(g[(r + d[1]) % Rows][(c + d[2]) % Cols]) = 1})

\* live cells among the neighbours of (r, c) that lie inside the grid
LiveInside(g, r, c) ==
    Cardinality({d \in Offsets : /\ r + d[1] \in RowIdx
                                 /\ c + d[2] \in ColIdx
                                 /\ And1(g[r + d[1]][c + d[2]]) = 1})

\* the synchronous Game-of-Life successor of an at-rest grid on the torus
LifeSuccessor(g) ==
    [r \in RowIdx |-> [c \in ColIdx |->
        IF \/ g[r][c] = 0 /\ LiveTorus(g, r, c) = 3
           \/ g[r][c] = 1 /\ LiveTorus(g, r, c) \in {2, 3}
        THEN 1 ELSE 0]]

\* the brightness the renderer owes a grid: by the alive bit of each cell
Rendering(g) ==
    [r \in RowIdx |-> [c \in ColIdx |-> IF And1(g[r][c]) = 1 THEN 15 ELSE 0]]

IsCorner(r, c) == r \in {0, Rows - 1} /\ c \in {0, Cols - 1}
IsEdge(r, c) == (r \in {0, Rows - 1} \/ c \in {0, Cols - 1}) /\ ~IsCorner(r, c)

\* the only live cell of the grid is (0, 0)
OnlyOriginAlive(g) ==
    \A r \in RowIdx, c \in ColIdx : (And1(g[r][c]) = 1) <=> (r = 0 /\ c = 0)

OriginNeighbours ==
    {<<7, 15>>, <<7, 0>>, <<7, 1>>, <<0, 15>>, <<0, 1>>, <<1, 15>>, <<1, 0>>, <<1, 1>>}

(***************************************************************************)
(* C1 (SpecFn): one call of step_state on an at-rest grid leaves the       *)
(* synchronous Game-of-Life successor of the pre-call grid on the torus:   *)
(* a cell is 1 exactly when it was dead with 3 live neighbours or alive    *)
(* with 2 or 3, counted on the grid as it was before the call.             *)
(***************************************************************************)
C1_StepIsLifeSuccessor ==
    pc = "stepped" => state = LifeSuccessor(pre)

\* a step in which a cell is born, one survives, one dies of overcrowding
\* and one dies of isolation
C1_Witness ==
    /\ pc = "stepped"
    /\ \E r \in RowIdx, c \in ColIdx : pre[r][c] = 0 /\ state[r][c] = 1
    /\ \E r \in RowIdx, c \in ColIdx :
          pre[r][c] = 1 /\ state[r][c] = 1 /\ LiveTorus(pre, r, c) = 3
    /\ \E r \in RowIdx, c \in ColIdx :
          pre[r][c] = 1 /\ state[r][c] = 0 /\ LiveTorus(pre, r, c) >= 4
    /\ \E r \in RowIdx, c \in ColIdx :
          pre[r][c] = 1 /\ state[r][c] = 0 /\ LiveTorus(pre, r, c) <= 1

(***************************************************************************)
(* C2 (Spec): at rest, that is in every state of the main loop outside a   *)
(* step_state call, every cell of the grid is 0 or 1.                      *)
(***************************************************************************)
C2_AtRest ==
    \A r \in RowIdx, c \in ColIdx : state[r][c] \in {0, 1}

\* a display-service call after a completed step that changed the grid
C2_Witness ==
    /\ pc = "scan"
    /\ gens >= 2
    /\ state # pre
    /\ \E r \in RowIdx, c \in ColIdx : state[r][c] = 1

(***************************************************************************)
(* C3 (Spec), as claimed: after N completed iterations the automaton has   *)
(* advanced floor((N - T) / D) + 1 generations if N >= T and none if       *)
(* N < T, with D = 8 and T = 100.                                          *)
(***************************************************************************)
C3_CadenceAsClaimed ==
    pc = "gate" =>
        gens = IF iters >= initial_timeout
               THEN ((iters - initial_timeout) \div frame_duration) + 1
               ELSE 0

(***************************************************************************)
(* C3 (Spec), amended: after N completed iterations the automaton has      *)
(* advanced floor((N - T - 1) / D) + 1 generations if N > T and none if    *)
(* N <= T: the gate of iteration T + 1 is the first to fire.               *)
(***************************************************************************)
C3_Cadence ==
    pc = "gate" =>
        gens = IF iters > initial_timeout
               THEN ((iters - initial_timeout - 1) \div frame_duration) + 1
               ELSE 0

\* the end of the iteration whose gate fired for the second time
C3_Witness ==
    /\ pc = "gate"
    /\ iters = initial_timeout + frame_duration + 1
    /\ gens = 2

(***************************************************************************)
(* C4 (Spec): array.scan is called exactly once in every iteration of the  *)
(* loop, whether or not the gate fired: the calls made so far number the   *)
(* completed iterations, plus one between the call and the end of the      *)
(* iteration it belongs to.                                                *)
(***************************************************************************)
C4_OneScanPerIteration ==
    /\ scans = IF pc = "toggle" THEN iters + 1 ELSE iters
    /\ pc = "gate" /\ iters > 0 =>
          Len(SelectSeq(ops, LAMBDA o : o = "scan")) = 1

\* an iteration whose gate fired has ended, after iterations whose gate did not
C4_Witness ==
    /\ pc = "gate"
    /\ ops = <<"fire", "show", "step", "scan", "toggle">>
    /\ iters > initial_timeout
    /\ scans = iters

(***************************************************************************)
(* C5 (Spec): within one iteration the operations come in program order:   *)
(* when the gate fires, the render, then at once the step, then the        *)
(* display-service call; otherwise the display-service call alone.  No     *)
(* step without the render right before it, no call before the decision.   *)
(***************************************************************************)
C5_IterationOrder ==
    \/ ops = <<>>
    \/ \E n \in 1..5 : ops = SubSeq(<<"fire", "show", "step", "scan", "toggle">>, 1, n)
    \/ \E n \in 1..3 : ops = SubSeq(<<"skip", "scan", "toggle">>, 1, n)

\* the step of a gate iteration has just run, right after the render
C5_Witness ==
    /\ pc = "reset"
    /\ ops = <<"fire", "show", "step">>
    /\ gens >= 2

(***************************************************************************)
(* C6 (SpecFn): for a grid with cells in 0..3, count_neighbors_torus at    *)
(* (r, c) is the number of cells with bit 0 set among the eight positions  *)
(* ((r + dr) mod 8, (c + dc) mod 16), whatever the pending bits; a single  *)
(* live cell at (0, 0) is counted at its eight toroidal neighbours only.   *)
(***************************************************************************)
C6_TorusCount ==
    pc = "counted_torus" =>
        /\ \A r \in RowIdx, c \in ColIdx : counts[r][c] = LiveTorus(state, r, c)
        /\ OnlyOriginAlive(state) =>
              \A r \in RowIdx, c \in ColIdx :
                  counts[r][c] = IF <<r, c>> \in OriginNeighbours THEN 1 ELSE 0

\* the single live cell at (0, 0), with pending bits set around it
C6_Witness ==
    /\ pc = "counted_torus"
    /\ OnlyOriginAlive(state)
    /\ state[0][0] = 3
    /\ state[7][15] = 2
    /\ counts[7][15] = 1
    /\ counts[0][0] = 0

(***************************************************************************)
(* C7 (SpecFn): both counters return a value in 0..8; the bounded one      *)
(* returns at most 3 at a corner and at most 5 at any other cell of the    *)
(* outer rows and columns.                                                 *)
(***************************************************************************)
C7_CountRange ==
    /\ pc \in {"counted_torus", "counted_bounded"} =>
          \A r \in RowIdx, c \in ColIdx : counts[r][c] \in 0..8
    /\ pc = "counted_bounded" =>
          \A r \in RowIdx, c \in ColIdx :
              /\ IsCorner(r, c) => counts[r][c] <= 3
              /\ IsEdge(r, c) => counts[r][c] <= 5

\* the bounded counts of a full grid with pending bits: the maxima are met
C7_Witness ==
    /\ pc = "counted_bounded"
    /\ \A r \in RowIdx, c \in ColIdx : And1(state[r][c]) = 1
    /\ state[0][0] = 3
    /\ counts[0][0] = 3
    /\ counts[7][15] = 3
    /\ counts[0][5] = 5
    /\ counts[3][15] = 5
    /\ counts[3][5] = 8

(***************************************************************************)
(* C8 (SpecFn): for a grid with cells in 0..3, count_neighbors_bounded at  *)
(* (r, c) is the number of cells with bit 0 set among the neighbours       *)
(* (r + dr, c + dc) inside rows 0..7 and columns 0..15: nothing wraps, the *)
(* centre is not counted, pending bits do not count.                       *)
(***************************************************************************)
C8_BoundedCount ==
    pc = "counted_bounded" =>
        \A r \in RowIdx, c \in ColIdx : counts[r][c] = LiveInside(state, r, c)

\* a live corner cell with its pending bit set whose only live toroidal
\* neighbour lies across the edge and does not count
C8_Witness ==
    /\ pc = "counted_bounded"
    /\ state[0][0] = 3
    /\ And1(state[0][15]) = 1
    /\ LiveTorus(state, 0, 0) = 1
    /\ counts[0][0] = 0

(***************************************************************************)
(* C9 (Spec): right after every render of the main loop, the one before    *)
(* the loop included, each framebuffer entry is 15 where the cell's alive  *)
(* bit is 1 and 0 where it is 0; no entry is ever anything but 0 or 15.    *)
(***************************************************************************)
C9_RenderedFrame ==
    /\ \A r \in RowIdx, c \in ColIdx : image[r][c] \in {0, 15}
    /\ (pc = "step" \/ (pc = "gate" /\ iters = 0)) => image = Rendering(state)

\* the render of a later generation, with lit and dark entries
C9_Witness ==
    /\ pc = "step"
    /\ gens >= 2
    /\ image # Rendering(initial_state)
    /\ \E r \in RowIdx, c \in ColIdx : image[r][c] = 15
    /\ \E r \in RowIdx, c \in ColIdx : image[r][c] = 0

(***************************************************************************)
(* C10 (Spec): a failed array.scan neither halts the loop nor touches the  *)
(* core: at the top of every iteration the grid, frame_timeout and the     *)
(* framebuffer are those of the run of as many iterations in which every   *)
(* call succeeds, and the loop is never left.                              *)
(***************************************************************************)
C10_ScanFailureIgnored ==
    /\ pc \in {"render0", "gate", "show", "step", "reset", "dec", "scan", "toggle"}
    /\ pc = "gate" => <<state, image, frame_timeout>> = ok_run(iters)
    /\ pc = "gate" => scans = iters

\* the top of an iteration after failed calls, the last one among them, with
\* generations advanced in between
C10_Witness ==
    /\ pc = "gate"
    /\ scan_res = "err"
    /\ errs >= 2
    /\ gens >= 2
    /\ scans = iters

(***************************************************************************)
(* C11 (Spec): at every display-service call the framebuffer shows the     *)
(* generation the grid held just before its latest step: the initial       *)
(* pattern while no step has run, and after k >= 1 steps generation k - 1, *)
(* of which the grid holds the successor and which differs from it.        *)
(***************************************************************************)
C11_DisplayLag ==
    pc = "scan" =>
        IF gens = 0
        THEN image = Rendering(initial_state) /\ state = initial_state
        ELSE /\ image = Rendering(pre)
             /\ state = LifeSuccessor(pre)
             /\ image # Rendering(state)

\* a display-service call after several steps, several iterations after the
\* latest one
C11_Witness ==
    /\ pc = "scan"
    /\ gens >= 3
    /\ ops = <<"skip">>
    /\ image = Rendering(pre)
    /\ pre # initial_state

(***************************************************************************)
(* C12 (Spec): frame_timeout is at least 1 whenever it is decremented, and *)
(* stays within 0..100 in every state.                                     *)
(***************************************************************************)
C12_TimeoutNotNegative ==
    /\ frame_timeout \in 0..initial_timeout
    /\ pc = "dec" => frame_timeout >= 1

\* the decrement that takes the counter to 0 after a reset
C12_Witness ==
    /\ pc = "dec"
    /\ frame_timeout = 1
    /\ gens >= 1

(***************************************************************************)
(* C17 (Spec): the gate fires exactly in the iterations that follow        *)
(* 100 + 8k completed iterations, each such iteration runs one step, and   *)
(* as many display-service calls as iterations precede each step: two      *)
(* consecutive steps are 8 iterations and 8 calls apart.                   *)
(***************************************************************************)
C17_FrameDuration ==
    /\ pc = "step" =>
          /\ iters = initial_timeout + frame_duration * gens
          /\ scans = iters
    /\ (pc \notin {"render0", "gate"}) =>
          ((ops[1] = "fire") <=>
             (iters >= initial_timeout /\ (iters - initial_timeout) % frame_duration = 0))
    /\ (pc = "gate" /\ Len(ops) > 0 /\ ops[1] = "fire") =>
          Len(SelectSeq(ops, LAMBDA o : o = "step")) = 1

\* the third step is about to run, 16 iterations after the first
C17_Witness ==
    /\ pc = "step"
    /\ gens = 2
    /\ iters = initial_timeout + 2 * frame_duration
    /\ scans = iters

(***************************************************************************)
(* C18 (Spec): only step_state changes the grid and only show_state the    *)
(* framebuffer; step_state leaves the framebuffer and show_state the grid  *)
(* alone.  An iteration whose gate does not fire goes through the          *)
(* decrement, the display-service call and the toggle: it lowers           *)
(* frame_timeout by 1, toggles the heartbeat and changes nothing else of   *)
(* the core.                                                               *)
(***************************************************************************)
C18_Frame ==
    [][ /\ (pc # "step") => (state' = state)
        /\ (pc \notin {"show", "render0"}) => (image' = image)
        /\ (pc = "dec") => (frame_timeout' = frame_timeout - 1)
        /\ (pc \notin {"dec", "reset"}) => (frame_timeout' = frame_timeout)
        /\ (pc = "toggle") => (red_led' = ~red_led)
        /\ (pc # "toggle") => (red_led' = red_led)
        /\ (pc = "gate" /\ frame_timeout # 0) => (pc' = "dec")
        /\ (pc = "dec") => (pc' = "scan")
        /\ (pc = "scan") => (pc' = "toggle")
        /\ (pc = "toggle") => (pc' = "gate")
      ]_vars

\* the end of an iteration whose gate did not fire, after the grid has changed
C18_Witness ==
    /\ pc = "gate"
    /\ ops = <<"skip", "scan", "toggle">>
    /\ gens >= 2
    /\ state # initial_state
    /\ image = Rendering(pre)

(***************************************************************************)
(* C13 (SpecLive): the loop has no terminal state: a next step is enabled  *)
(* in every reachable state, steps of the automaton recur for ever, and    *)
(* for every k (up to the MaxGens the history counter tells apart) the     *)
(* grid eventually holds generation k of the hard-coded pattern.           *)
(***************************************************************************)
RECURSIVE generation(_)
generation(k) ==
    IF k = 0 THEN initial_state
    ELSE CHOOSE n \in {LifeSuccessor(g) : g \in {generation(k - 1)}} : TRUE

Generations == [k \in 0..MaxGens |-> generation(k)]

C13_RunsForever ==
    /\ [](ENABLED NextLive)
    /\ []<><<StepLive>>_vars
    /\ \A k \in 0..MaxGens : <>(gens = k /\ state = Generations[k])

\* the top of an iteration after MaxGens steps and a failed call
C13_Witness ==
    /\ pc = "gate"
    /\ gens = MaxGens
    /\ scan_res = "err"
    /\ state = Generations[MaxGens]
    /\ state # pre

(***************************************************************************)
(* C19 (SpecFn): at every coordinate of every grid count_neighbors_bounded *)
(* returns at most what count_neighbors_torus returns, and at the interior *)
(* coordinates (1 <= row <= 6, 1 <= col <= 14) the two return the same.    *)
(***************************************************************************)
C19_BoundedVsTorus ==
    pc = "counted_bounded" =>
        \A r \in RowIdx, c \in ColIdx :
            /\ counts[r][c] <= count_neighbors_torus(state, r, c)
            /\ (r \in 1..6 /\ c \in 1..14) =>
                   counts[r][c] = count_neighbors_torus(state, r, c)

\* a corner that loses neighbours to the edge next to an interior cell that
\* loses none
C19_Witness ==
    /\ pc = "counted_bounded"
    /\ counts[0][0] < count_neighbors_torus(state, 0, 0)
    /\ counts[1][1] = count_neighbors_torus(state, 1, 1)
    /\ counts[1][1] > 0
    /\ \E c \in 1..14 : counts[7][c] < count_neighbors_torus(state, 7, c)

(***************************************************************************)
(* C14 (SpecShow): rendering is idempotent and stateless.  Whatever the    *)
(* framebuffer held, a call of show_state on a grid at rest leaves in all  *)
(* 128 entries the rendering of that grid and leaves the grid alone, and   *)
(* the second of two calls in a row leaves the framebuffer as the first    *)
(* left it.                                                                *)
(***************************************************************************)
C14_ShowIdempotent ==
    [][ /\ pc \in {"input", "shown"} =>
              (image' = Rendering(state) /\ state' = state)
        /\ pc = "shown" => image' = image ]_vars

\* two calls made over a framebuffer that held other content, on a grid with
\* live and dead cells in the last row
C14_Witness ==
    /\ pc = "shown_twice"
    /\ image = Rendering(state)
    /\ image # zero_grid
    /\ \E c \in ColIdx : state[7][c] = 1 /\ image[7][c] = on_intensity
    /\ \E r \in RowIdx, c \in ColIdx : state[r][c] = 0 /\ image[r][c] = 0

(***************************************************************************)
(* C15 (SpecGlider): a glider alone on the torus is, after exactly 4 calls *)
(* of step_state, the starting pattern moved by one cell along each axis   *)
(* (indices modulo 8 and 16) with no other live cell, and after 1, 2 and 3 *)
(* calls the grid is not that moved pattern.                               *)
(***************************************************************************)
\* g moved by (dr, dc) on the torus
shift_grid(g, dr, dc) ==
    [r \in RowIdx |-> [c \in ColIdx |-> g[(r - dr) % Rows][(c - dc) % Cols]]]

Diagonals == {-1, 1} \X {-1, 1}

live_cells(g) == Cardinality({rc \in RowIdx \X ColIdx : And1(g[rc[1]][rc[2]]) = 1})

C15_GliderCycle ==
    /\ gens = 4 =>
          /\ \E d \in Diagonals : state = shift_grid(first, d[1], d[2])
          /\ live_cells(state) = 5
    /\ gens \in 1..3 =>
          \A d \in Diagonals : state # shift_grid(first, d[1], d[2])

\* a glider that has crossed both edges of the grid in its four steps
C15_Witness ==
    /\ gens = 4
    /\ first = glider_grid(6, 14, FALSE, FALSE)
    /\ state = shift_grid(first, 1, 1)
    /\ state[1][0] = 1
    /\ state[7][0] = 1
    /\ state # first

(***************************************************************************)
(* C20 (SpecShift): step_state commutes with every cyclic shift of the     *)
(* torus.  For a grid G at rest and every shift (dr, dc), stepping G moved *)
(* by the shift gives the step of G moved by the shift.                    *)
(***************************************************************************)
C20_TranslationInvariant ==
    pc = "stepped" =>
        \A dr \in RowIdx, dc \in ColIdx :
            step_state(shift_grid(pre, dr, dc)) = shift_grid(state, dr, dc)

\* a stepped grid with live cells in the first and the last row, which
\* the shifts carry across the edge
C20_Witness ==
    /\ pc = "stepped"
    /\ state # pre
    /\ state # zero_grid
    /\ \E c \in ColIdx : pre[0][c] = 1
    /\ \E c \in ColIdx : pre[7][c] = 1
    /\ step_state(shift_grid(pre, 7, 15)) = shift_grid(state, 7, 15)
    /\ shift_grid(state, 7, 15) # state

(***************************************************************************)
(* C16 (SpecEval): during the evaluation pass, taken one coordinate at a   *)
(* time in row-major order, bit 0 of every cell keeps the value it had at  *)
(* the start of the call; a visit changes at most the visited cell, by     *)
(* setting its bit 1, and the values stay in 0..3; the neighbour count     *)
(* computed at each coordinate is the count on the grid as it was before   *)
(* the call; the visits of all 128 coordinates make up the pass.           *)
(***************************************************************************)
C16_EvalKeepsBit0 ==
    [][ cursor' = cursor + 1 =>
          LET row == cursor \div Cols
              col == cursor % Cols
          IN  /\ \A r \in RowIdx, c \in ColIdx :
                    /\ And1(state'[r][c]) = And1(pre[r][c])
                    /\ state'[r][c] \in 0..3
                    /\ state'[r][c] # state[r][c] =>
                           /\ r = row /\ c = col
                           /\ state'[r][c] = state[r][c] + 2
              /\ counts'[row][col] = count_neighbors_torus(pre, row, col)
              /\ counts'[row][col] = LiveTorus(pre, row, col)
              /\ pre' = pre
              /\ cursor' = Rows * Cols => state' = eval_pass(pre, 0) ]_vars

\* the end of a pass that marked a birth and a survival and left a live
\* cell to die, the last coordinate having counted marked neighbours
C16_Witness ==
    /\ pc = "evaluating"
    /\ cursor = Rows * Cols
    /\ \E r \in RowIdx, c \in ColIdx : state[r][c] = 2
    /\ \E r \in RowIdx, c \in ColIdx : state[r][c] = 3
    /\ \E r \in RowIdx, c \in ColIdx : state[r][c] = 1
    /\ counts[7][15] > 0
    /\ state[0][0] >= 2 \/ state[0][15] >= 2 \/ state[6][15] >= 2

====
